---- MODULE Spec2Model ----
(***************************************************************************)
(* Isolation (knight moves) board and the CustomPlayer search agent:       *)
(* Board (isolation/isolation.py), CustomPlayer.get_move / minimax /       *)
(* alphabeta / get_sorted_moves (game_agent.py) and the score functions of *)
(* sample_players.py.                                                      *)
(***************************************************************************)
EXTENDS Integers, Sequences, FiniteSets, TLC

VARIABLES board, self, cache, gameNo, calls, prevCount, last, pure

vars == <<board, self, cache, gameNo, calls, prevCount, last, pure>>

(***************************************************************************)
(* Bounds of the exploration.                                              *)
(***************************************************************************)
\* timer reads that still find enough time left, at most
MaxBudget == 2
\* timer reads granted by a deadline long enough for several whole searches
LongBudget == 24
\* largest fixed search_depth an agent is constructed with
MaxSearchDepth == 2
\* games played in a row by the same agent object
MaxGames == 2
\* get_move calls made on one unchanged board
MaxCallsPerBoard == 2
\* plies played before a position is handed to the direct comparison
MaxComparePlies == 1
\* largest depth at which the search functions are compared directly
MaxCompareDepth == 5

\* board dimensions explored, as <<width, height>>
GameDims == {<<3, 2>>}
\* board dimensions on which the search functions are compared directly
CompareDims == {<<5, 3>>}
\* board dimensions on which the Board methods are explored on their own
BoardDims == {<<3, 3>>, <<4, 3>>}
\* board dimensions on which two games are played side by side
PairDims == {<<3, 2>>, <<3, 3>>}
\* moves applied to a board before Board.play is called on it
MaxOpeningPlies == 2
\* board dimensions on which whole matches are played
PlayDims == {<<3, 2>>, <<3, 3>>}

(***************************************************************************)
(* Values.                                                                 *)
(***************************************************************************)
\* float("inf"); every heuristic value is far below it
Inf == 1000
\* Board.NOT_MOVED (None)
NOT_MOVED == <<-9, -9>>
\* the (-1, -1) move returned when there is nothing to play
NoMove == <<-1, -1>>
\* Board.L_MOVES
L_MOVES == << <<-2, -1>>, <<-2, 1>>, <<-1, -2>>, <<-1, 2>>,
              <<1, -2>>, <<1, 2>>, <<2, -1>>, <<2, 1>> >>

Max2(a, b) == IF a >= b THEN a ELSE b
Min2(a, b) == IF a <= b THEN a ELSE b

RECURSIVE Pow2(_)
\* a shift that ignores its count
Pow2_NoShift(n) == 1

Pow2(n) == IF n = 0 THEN 1 ELSE 2 * Pow2(n - 1)

\* a bit numbered down the columns instead of along the rows
CellBit_ColumnMajor(b, cell) == Pow2(cell[2] * b.height + cell[1])

\* the bit of cell (r, c) in board_state: 1 << (r * width + c)
CellBit(b, cell) == Pow2(cell[1] * b.width + cell[2])

(***************************************************************************)
(* Board                                                                   *)
(***************************************************************************)
\* Board.__init__ : player_1 is active, nobody placed, no cell taken
NewBoard(w, h) ==
    [width |-> w, height |-> h, move_count |-> 0, active_player |-> 1,
     inactive_player |-> 2, board_state |-> 0,
     locations |-> <<NOT_MOVED, NOT_MOVED>>]

\* self.inactive_player
inactive_player(b) == b.inactive_player

\* Board.get_opponent
get_opponent(b, player) ==
    IF player = b.active_player THEN inactive_player(b) ELSE b.active_player

\* a key that leaves out where player_2 stands
get_key_OneLocation(b) ==
    <<b.board_state, b.locations[1], b.active_player = 1>>

\* Board.get_key
get_key(b) ==
    <<b.board_state, b.locations[1], b.locations[2], b.active_player = 1>>

\* Board.is_available
is_available(b, board_state, cell) ==
    /\ 0 <= cell[1] /\ cell[1] < b.height
    /\ 0 <= cell[2] /\ cell[2] < b.width
    /\ (board_state \div Pow2(cell[1] * b.width + cell[2])) % 2 = 0

\* [(i, j) for j in range(width) for i in range(height)]
AllCells(b) ==
    [k \in 1..(b.width * b.height) |->
        <<(k - 1) % b.height, (k - 1) \div b.height>>]

\* list.remove(x): drops the first occurrence of x
RECURSIVE RemoveFirst(_, _)
RemoveFirst(s, x) ==
    IF s = <<>> THEN <<>>
    ELSE IF Head(s) = x THEN Tail(s)
    ELSE <<Head(s)>> \o RemoveFirst(Tail(s), x)

InSeq(s, x) == \E i \in 1..Len(s) : s[i] = x

Range(s) == {s[i] : i \in 1..Len(s)}

\* all_cells.remove(...) raises ValueError when player_1 is not on the board
get_legal_moves_raises(b, player) ==
    /\ b.locations[player] = NOT_MOVED
    /\ player = 2
    /\ b.locations[1] = NOT_MOVED

\* knight moves kept whenever they stay on the board
get_legal_moves_InBoundsOnly(b, player) ==
    LET location == b.locations[player] IN
    IF location = NOT_MOVED
    THEN IF player = 2
         THEN RemoveFirst(AllCells(b), b.locations[1])
         ELSE AllCells(b)
    ELSE LET Ok(d) == is_available(b, 0,
                                   <<location[1] + d[1], location[2] + d[2]>>)
         offs == SelectSeq(L_MOVES, Ok)
     IN [i \in 1..Len(offs) |->
                <<location[1] + offs[i][1], location[2] + offs[i][2]>>]

\* Board.get_legal_moves(player)
get_legal_moves(b, player) ==
    LET location == b.locations[player] IN
    IF location = NOT_MOVED
    THEN IF player = 2
         THEN RemoveFirst(AllCells(b), b.locations[1])
         ELSE AllCells(b)
    ELSE LET Ok(d) == is_available(b, b.board_state,
                                   <<location[1] + d[1], location[2] + d[2]>>)
         offs == SelectSeq(L_MOVES, Ok)
     IN [i \in 1..Len(offs) |->
                <<location[1] + offs[i][1], location[2] + offs[i][2]>>]

\* Board.get_legal_moves() : the active player's moves
active_moves(b) == get_legal_moves(b, b.active_player)

\* apply_move that forgets to hand the turn's other half over
apply_move_KeepsInactive(b, move) ==
    [b EXCEPT !.locations[b.active_player] = move,
              !.board_state = b.board_state + CellBit(b, move),
              !.active_player = b.inactive_player,
              !.move_count = b.move_count + 1]

\* Board.apply_move
apply_move(b, move) ==
    [b EXCEPT !.locations[b.active_player] = move,
              !.board_state = b.board_state + CellBit(b, move),
              !.active_player = b.inactive_player,
              !.inactive_player = b.active_player,
              !.move_count = b.move_count + 1]

\* 1 << (row * width + col) raises ValueError for a negative shift count
shift_raises(b, move) == move[1] * b.width + move[2] < 0

\* Board.apply_move called with any pair of integers: the mover's location
\* is assigned before the shift is computed, and nothing tests the move
apply_move_call(b, move) ==
    IF shift_raises(b, move)
    THEN [raised |-> TRUE,
          board |-> [b EXCEPT !.locations[b.active_player] = move]]
    ELSE [raised |-> FALSE, board |-> apply_move(b, move)]

\* Board.copy followed by apply_move on the copy
forecast_move(b, move) == apply_move(b, move)

\* forecast_key that keeps the turn with the player who moves
forecast_key_SameTurn(b, move) ==
    IF b.active_player = 1
    THEN <<b.board_state + CellBit(b, move), move, b.locations[2], TRUE>>
    ELSE <<b.board_state + CellBit(b, move), b.locations[1], move, FALSE>>

\* Board.forecast_key, which get_sorted_moves calls by the name
\* get_forecast_key: the key of the board after the move
forecast_key(b, move) ==
    LET new_board_state == b.board_state + CellBit(b, move) IN
    IF b.active_player = 1
    THEN <<new_board_state, move, b.locations[2], FALSE>>
    ELSE <<new_board_state, b.locations[1], move, TRUE>>

(***************************************************************************)
(* Board.get_reachable_locations                                           *)
(***************************************************************************)
\* for row, col in cells: explored += 1 << (row * self.width + col)
RECURSIVE MarkAll(_, _, _)
MarkAll(b, explored, cells) ==
    IF cells = <<>> THEN explored
    ELSE MarkAll(b, explored + CellBit(b, Head(cells)), Tail(cells))

\* the BFS started without marking the directly reachable cells
InitialExplored_BoardOnly(b, cells) == b.board_state

\* explored = self.board_state, plus the directly reachable cells
InitialExplored(b, cells) == MarkAll(b, b.board_state, cells)

\* [(r + dr, c + dc) for dr, dc in Board.L_MOVES
\*  if self.is_available(explored, (r + dr, c + dc))]
JustReached(b, explored, cell) ==
    LET Ok(d) == is_available(b, explored, <<cell[1] + d[1], cell[2] + d[2]>>)
        offs == SelectSeq(L_MOVES, Ok)
    IN [i \in 1..Len(offs) |-> <<cell[1] + offs[i][1], cell[2] + offs[i][2]>>]

\* the for loop over reachable_by_depth[d], from its i-th cell on
RECURSIVE ExpandBucket(_, _, _, _, _)
ExpandBucket(b, bucket, i, explored, reachable_in_d_moves) ==
    IF i > Len(bucket)
    THEN [cells |-> reachable_in_d_moves, explored |-> explored]
    ELSE ExpandBucket(b, bucket, i + 1,
                      MarkAll(b, explored, JustReached(b, explored, bucket[i])),
                      reachable_in_d_moves \o JustReached(b, explored, bucket[i]))

\* while d in reachable_by_depth: the dict as the sequence of its values,
\* its keys being 1..d
RECURSIVE ReachLoop(_, _, _)
ReachLoopStep(b, reachable_by_depth, e) ==
    IF Len(e.cells) > 0
    THEN ReachLoop(b, Append(reachable_by_depth, e.cells), e.explored)
    ELSE reachable_by_depth

ReachLoop(b, reachable_by_depth, explored) ==
    ReachLoopStep(b, reachable_by_depth,
                  ExpandBucket(b, reachable_by_depth[Len(reachable_by_depth)],
                               1, explored, <<>>))

\* get_reachable_locations without the early return
get_reachable_locations_NoEarlyReturn(b, player) ==
    ReachLoop(b, <<get_legal_moves(b, player)>>,
              InitialExplored(b, get_legal_moves(b, player)))

\* Board.get_reachable_locations(player): <<>> is the empty dict
get_reachable_locations(b, player) ==
    IF Len(get_legal_moves(b, player)) = 0 THEN <<>>
    ELSE ReachLoop(b, <<get_legal_moves(b, player)>>,
                   InitialExplored(b, get_legal_moves(b, player)))

\* utility with the winner and the loser exchanged
utility_Swapped(b, player) ==
    IF Len(active_moves(b)) = 0
    THEN IF player = inactive_player(b) THEN -Inf
         ELSE IF player = b.active_player THEN Inf
         ELSE 0
    ELSE 0

\* Board.utility(player)
utility(b, player) ==
    IF Len(active_moves(b)) = 0
    THEN IF player = inactive_player(b) THEN Inf
         ELSE IF player = b.active_player THEN -Inf
         ELSE 0
    ELSE 0

(***************************************************************************)
(* Score functions (sample_players.py) and a caller-supplied one           *)
(***************************************************************************)
null_score(game, player) == utility(game, player)

open_move_score(game, player) ==
    LET u == utility(game, player) IN
    IF u # 0 THEN u ELSE Len(get_legal_moves(game, player))

improved_score(game, player) ==
    LET u == utility(game, player) IN
    IF u # 0 THEN u
    ELSE Len(get_legal_moves(game, player))
         - Len(get_legal_moves(game, get_opponent(game, player)))

\* r * width + c of a placed player, 0 before the placement
CellIndex(game, player) ==
    IF game.locations[player] = NOT_MOVED THEN 0
    ELSE game.locations[player][1] * game.width + game.locations[player][2]

\* a score_fn passed to CustomPlayer(score_fn=...): any callable is accepted
position_score(game, player) ==
    LET u == utility(game, player) IN
    IF u # 0 THEN u
    ELSE (4 * CellIndex(game, player)
          + CellIndex(game, get_opponent(game, player))) % 6

ScoreFns == {"null_score", "open_move_score", "improved_score", "position_score"}

\* self.score(game, self)
score(agent, game) ==
    CASE agent.score = "null_score" -> null_score(game, agent.me)
      [] agent.score = "open_move_score" -> open_move_score(game, agent.me)
      [] agent.score = "improved_score" -> improved_score(game, agent.me)
      [] OTHER -> position_score(game, agent.me)

(***************************************************************************)
(* The state threaded through one search: the agent's cache, the timer     *)
(* and a record of what the search did.                                    *)
(*   budget        timer reads that still return at least TIMER_THRESHOLD  *)
(*   evals         number of score invocations                             *)
(*   evalTerminal  score was invoked on a state without a legal move       *)
(*   reuse         <<hit, cached_depth, depth - 1>> of every child whose   *)
(*                 value was taken from the cache instead of searched      *)
(*   searched      <<hit, cached_depth, depth - 1>> of every child that    *)
(*                 was searched recursively                                *)
(*   stale         an entry written in an earlier game was read            *)
(*   writes        <<key, depth, depth of the entry replaced or -1>> of    *)
(*                 every assignment to the cache, in order                 *)
(*   path          <<key, depth>> of the alphabeta calls that have been    *)
(*                 entered and have not returned, outermost first          *)
(*   returned      <<key, depth>> of the alphabeta calls that returned, in *)
(*                 the order of their returns                              *)
(*   expired       what had been done when a timer read first returned     *)
(*                 less than TIMER_THRESHOLD                               *)
(*   flags         <<maximizing_player, the agent is the active player of  *)
(*                 the state, depth>> of every minimax or alphabeta call   *)
(***************************************************************************)
NotExpired ==
    [hit |-> FALSE, evals |-> 0, writes |-> 0, reuse |-> {}, searched |-> {}]

NewSearch(c, budget, game) ==
    [cache |-> c, budget |-> budget, game |-> game, evals |-> 0,
     evalTerminal |-> FALSE, reuse |-> {}, searched |-> {}, stale |-> FALSE,
     writes |-> <<>>, path |-> <<>>, returned |-> <<>>,
     expired |-> NotExpired, flags |-> {}]

\* minimax or alphabeta is called on game with this maximizing_player
Called(st, agent, game, depth, maximizing_player) ==
    [st EXCEPT !.flags = st.flags \cup
        {<<maximizing_player, game.active_player = agent.me, depth>>}]

\* a recursive call that hands its own flag down
ChildFlag_Same(maximizing_player) == maximizing_player

\* the flag of the recursive call on a child: not maximizing_player in
\* minimax, False in the maximizing and True in the minimizing loop of
\* alphabeta
ChildFlag(maximizing_player) == ~maximizing_player

\* self.time_left() < self.TIMER_THRESHOLD
TimedOut(st) == st.budget = 0

\* one more timer read that found enough time
Tick(st) == [st EXCEPT !.budget = st.budget - 1]

\* self.score(game, self), recorded
Evaluated(agent, game, st) ==
    [st EXCEPT !.evals = st.evals + 1,
               !.evalTerminal = st.evalTerminal \/ Len(active_moves(game)) = 0]

\* alphabeta(game, depth, ...) is entered
Enter(st, game, depth) ==
    [st EXCEPT !.path = Append(st.path, <<get_key(game), depth>>)]

\* the innermost alphabeta call returns
Leave(st) ==
    [st EXCEPT !.path = SubSeq(st.path, 1, Len(st.path) - 1),
               !.returned = Append(st.returned, st.path[Len(st.path)])]

\* the timer read of a call entered with less than TIMER_THRESHOLD left
Expired(st) ==
    [st EXCEPT !.expired = [hit |-> TRUE, evals |-> st.evals,
                            writes |-> Len(st.writes), reuse |-> st.reuse,
                            searched |-> st.searched]]

\* a call that scores its state before it raises
Aborted_AfterScoring(st) ==
    [aborted |-> TRUE, value |-> 0, move |-> NoMove,
     st |-> [st EXCEPT !.evals = st.evals + 1]]

\* raise Timeout()
Aborted(st) == [aborted |-> TRUE, value |-> 0, move |-> NoMove, st |-> st]

Returned(value, move, st) ==
    [aborted |-> FALSE, value |-> value, move |-> move, st |-> st]

\* self.cache[game.get_key()] = (result[0], depth)
CacheStore(c, game, value, depth, gameId) ==
    (get_key(game) :> [value |-> value, depth |-> depth, game |-> gameId]) @@ c

\* the depth tagged on the entry under key, -1 without an entry
DepthAt(c, key) == IF key \in DOMAIN c THEN c[key].depth ELSE 0 - 1

\* an assignment that tags the entry with the depth left to the children
CacheWrite_ChildDepth(st, game, value, depth) ==
    [st EXCEPT !.cache = CacheStore(st.cache, game, value, depth - 1, st.game),
               !.writes = Append(st.writes,
                                 <<get_key(game), depth - 1,
                                   DepthAt(st.cache, get_key(game))>>)]

\* the assignment of line 314 on the search state, recorded
CacheWrite(st, game, value, depth) ==
    [st EXCEPT !.cache = CacheStore(st.cache, game, value, depth, st.game),
               !.writes = Append(st.writes,
                                 <<get_key(game), depth,
                                   DepthAt(st.cache, get_key(game))>>)]

(***************************************************************************)
(* CustomPlayer.get_sorted_moves                                           *)
(***************************************************************************)
\* list.sort(key=itemgetter(1), reverse=reverse) is stable in both
\* directions: an element goes behind every element that is not worse
RECURSIVE InsertSorted(_, _, _)
InsertSorted(sorted, e, reverse) ==
    IF sorted = <<>> THEN <<e>>
    ELSE IF (reverse /\ Head(sorted).value >= e.value)
            \/ (~reverse /\ Head(sorted).value <= e.value)
         THEN <<Head(sorted)>> \o InsertSorted(Tail(sorted), e, reverse)
         ELSE <<e>> \o sorted

RECURSIVE StableSort(_, _)
StableSort(s, reverse) ==
    IF s = <<>> THEN <<>>
    ELSE InsertSorted(StableSort(SubSeq(s, 1, Len(s) - 1), reverse),
                      s[Len(s)], reverse)

\* (move, cached value, cached depth) of one legal move; hit and game say
\* whether the cache held an entry and in which game it was written
CachedChild(game, move, c, reverse) ==
    LET child_hash == forecast_key(game, move) IN
    IF child_hash \in DOMAIN c
    THEN [move |-> move, value |-> c[child_hash].value,
          depth |-> c[child_hash].depth, hit |-> TRUE,
          game |-> c[child_hash].game]
    ELSE [move |-> move, value |-> IF reverse THEN -Inf ELSE Inf,
          depth |-> -1, hit |-> FALSE, game |-> 0]

get_sorted_moves(game, reverse, c) ==
    LET legal == active_moves(game)
        moves == [i \in 1..Len(legal) |-> CachedChild(game, legal[i], c, reverse)]
    IN StableSort(moves, reverse)

\* the reads of get_sorted_moves, recorded
SortedRead(moves, st) ==
    [st EXCEPT !.stale = st.stale
                  \/ \E i \in 1..Len(moves) :
                        moves[i].hit /\ moves[i].game # st.game]

(***************************************************************************)
(* CustomPlayer.alphabeta                                                  *)
(***************************************************************************)
\* the reuse test off by one ply
UseCached_Shallow(child, depth) == child.depth >= depth - 2

\* if cached_depth >= depth - 1: value = cached_value
UseCached(child, depth) == child.depth >= depth - 1

RECURSIVE alphabeta(_, _, _, _, _, _, _)
RECURSIVE ABChildren(_, _, _, _, _, _, _, _, _, _)

\* the loop over the sorted moves, from moves[i] on; best is the running
\* result as [value, move]
ABChildren(agent, game, depth, moves, i, alpha, beta, maximizing_player, best, st) ==
    IF i > Len(moves) THEN Returned(best.value, best.move, st)
    ELSE
    LET child == moves[i]
        note == <<child.hit, child.depth, depth - 1>>
        r == IF UseCached(child, depth)
             THEN Returned(child.value, child.move,
                           [st EXCEPT !.reuse = st.reuse \cup {note}])
             ELSE alphabeta(agent, forecast_move(game, child.move), depth - 1,
                            alpha, beta, ChildFlag(maximizing_player),
                            [st EXCEPT !.searched = st.searched \cup {note}])
    IN IF r.aborted THEN r
       ELSE
       LET value == r.value
           better == IF maximizing_player THEN value > best.value
                                          ELSE value < best.value
           result == IF better THEN [value |-> value, move |-> child.move]
                               ELSE best
       IN IF maximizing_player
          THEN IF value >= beta
               THEN Returned(result.value, result.move, r.st)
               ELSE ABChildren(agent, game, depth, moves, i + 1,
                               Max2(alpha, value), beta, maximizing_player,
                               result, r.st)
          ELSE IF value <= alpha
               THEN Returned(result.value, result.move, r.st)
               ELSE ABChildren(agent, game, depth, moves, i + 1,
                               alpha, Min2(beta, value), maximizing_player,
                               result, r.st)

\* a node that caches whatever it has when a Timeout comes up from below
CacheAndReturn_AlsoOnTimeout(r, game, depth) ==
    IF r.aborted THEN [r EXCEPT !.st = CacheWrite(r.st, game, r.value, depth)]
    ELSE Returned(r.value, r.move,
                  Leave(CacheWrite(r.st, game, r.value, depth)))

\* the end of alphabeta, r being what the branches above left: a Timeout
\* passes through, a result is cached and returned
CacheAndReturn(r, game, depth) ==
    IF r.aborted THEN r
    ELSE Returned(r.value, r.move,
                  Leave(CacheWrite(r.st, game, r.value, depth)))

alphabeta(agent, game, depth, alpha, beta, maximizing_player, st0) ==
    LET st == Called(st0, agent, game, depth, maximizing_player) IN
    IF TimedOut(st) THEN Aborted(Expired(Enter(st, game, depth)))
    ELSE
    LET st1 == Enter(Tick(st), game, depth)
        state_utility == utility(game, agent.me)
        r == IF state_utility # 0 THEN Returned(state_utility, NoMove, st1)
             ELSE IF depth <= 0
             THEN Returned(score(agent, game), NoMove, Evaluated(agent, game, st1))
             ELSE LET moves == get_sorted_moves(game, maximizing_player, st1.cache)
                  IN ABChildren(agent, game, depth, moves, 1, alpha, beta,
                                maximizing_player,
                                [value |-> IF maximizing_player THEN -Inf ELSE Inf,
                                 move |-> NoMove],
                                SortedRead(moves, st1))
    IN CacheAndReturn(r, game, depth)

(***************************************************************************)
(* CustomPlayer.minimax                                                    *)
(***************************************************************************)
RECURSIVE minimax(_, _, _, _, _)
RECURSIVE MMChildren(_, _, _, _, _, _, _, _)

\* a max / min that lets a later child of equal value replace the best
LastBest(i, maximizing_player, value, bestValue) ==
    \/ i = 1
    \/ IF maximizing_player THEN value >= bestValue ELSE value <= bestValue

\* max / min with key=itemgetter(0) over the list in order: the i-th child
\* replaces the best only when its value is strictly better
FirstBest(i, maximizing_player, value, bestValue) ==
    \/ i = 1
    \/ IF maximizing_player THEN value > bestValue ELSE value < bestValue

\* the list comprehension over game.get_legal_moves() followed by max / min
\* with key=itemgetter(0): the first best child wins
MMChildren(agent, game, depth, moves, i, maximizing_player, best, st) ==
    IF i > Len(moves) THEN Returned(best.value, best.move, st)
    ELSE
    LET r == minimax(agent, forecast_move(game, moves[i]), depth - 1,
                     ChildFlag(maximizing_player), st)
    IN IF r.aborted THEN r
       ELSE
       MMChildren(agent, game, depth, moves, i + 1, maximizing_player,
                  IF FirstBest(i, maximizing_player, r.value, best.value)
                  THEN [value |-> r.value, move |-> moves[i]]
                  ELSE best,
                  r.st)

minimax(agent, game, depth, maximizing_player, st0) ==
    LET st == Called(st0, agent, game, depth, maximizing_player) IN
    IF TimedOut(st) THEN Aborted(Expired(st))
    ELSE
    LET st1 == Tick(st)
        state_utility == utility(game, agent.me)
    IN IF state_utility # 0 THEN Returned(state_utility, NoMove, st1)
       ELSE IF depth <= 0
       THEN Returned(score(agent, game), NoMove, Evaluated(agent, game, st1))
       ELSE MMChildren(agent, game, depth, active_moves(game), 1,
                       maximizing_player, [value |-> 0, move |-> NoMove], st1)

(***************************************************************************)
(* CustomPlayer.get_move                                                   *)
(***************************************************************************)
\* method_fn(game, depth, True): the third positional parameter of minimax
\* is maximizing_player, the third positional parameter of alphabeta is
\* alpha, which therefore receives True (the number 1)
TrueAsNumber == 1

method_fn(agent, game, depth, st) ==
    IF agent.method = "alphabeta"
    THEN alphabeta(agent, game, depth, TrueAsNumber, Inf, TRUE, st)
    ELSE minimax(agent, game, depth, TRUE, st)

\* a max that returns the last of two equals
MaxByValue_LastOfEquals(best, r) ==
    IF r.value >= best.value THEN [value |-> r.value, move |-> r.move] ELSE best

\* max(best, (value, move), key=itemgetter(0)): the first of two equals wins
MaxByValue(best, r) ==
    IF r.value > best.value THEN [value |-> r.value, move |-> r.move] ELSE best

\* a handler that lets the Timeout through
ExceptTimeout_Reraise(best, iters, st) ==
    [best |-> best, iters |-> iters, st |-> st, aborted |-> TRUE, raised |-> TRUE]

\* except Timeout: pass
ExceptTimeout(best, iters, st) ==
    [best |-> best, iters |-> iters, st |-> st, aborted |-> TRUE, raised |-> FALSE]

\* one entry of the record of iterations: what the search at this depth
\* returned and the best pair after it
Iteration(depth, r, bestAfter) ==
    [depth |-> depth, aborted |-> r.aborted, value |-> r.value,
     move |-> r.move, best |-> bestAfter]

\* while True: value, move = method_fn(game, depth, True); best = max(...)
RECURSIVE Deepening(_, _, _, _, _, _)
RECURSIVE DeepeningStep(_, _, _, _, _, _)

\* the rest of one turn of the loop once the search r at this depth is over:
\* a Timeout leaves the loop, a result updates best and depth += 1
DeepeningStep(agent, game, depth, best, iters, r) ==
    IF r.aborted
    THEN ExceptTimeout(best, Append(iters, Iteration(depth, r, best)), r.st)
    ELSE Deepening(agent, game, depth + 1, MaxByValue(best, r),
                   Append(iters, Iteration(depth, r, MaxByValue(best, r))),
                   r.st)

Deepening(agent, game, depth, best, iters, st) ==
    DeepeningStep(agent, game, depth, best, iters,
                  method_fn(agent, game, depth, st))

\* best = method_fn(game, self.search_depth, True), r being what the search
\* returned
FixedDepthStep(agent, best, r) ==
    IF r.aborted
    THEN ExceptTimeout(best, <<Iteration(agent.search_depth, r, best)>>, r.st)
    ELSE [best |-> [value |-> r.value, move |-> r.move],
          iters |-> <<Iteration(agent.search_depth, r,
                                [value |-> r.value, move |-> r.move])>>,
          st |-> r.st, aborted |-> FALSE, raised |-> FALSE]

FixedDepth(agent, game, best, st) ==
    FixedDepthStep(agent, best, method_fn(agent, game, agent.search_depth, st))

\* the fallback seeded with no move at all
SeedBest_NoMove(agent, game, legal_moves) ==
    [value |-> -Inf, move |-> NoMove]

\* best = self.score(game.forecast_move(legal_moves[0]), self), legal_moves[0]
SeedBest(agent, game, legal_moves) ==
    [value |-> score(agent, forecast_move(game, legal_moves[1])),
     move |-> legal_moves[1]]

\* return best[1], with the record of what the call did
ReturnBest(seed, out) ==
    [move |-> out.best.move, best |-> out.best, seed |-> seed,
     iters |-> out.iters, st |-> out.st, aborted |-> out.aborted,
     raised |-> out.raised]

\* the try block, entered with the seeded best and the state st after the
\* seed was scored
TryBlock(agent, game, seed, st) ==
    ReturnBest(seed, IF agent.iterative
                     THEN Deepening(agent, game, 1, seed, <<>>, st)
                     ELSE FixedDepth(agent, game, seed, st))

get_move(agent, game, legal_moves, c, budget, gameId) ==
    IF Len(legal_moves) = 0
    THEN [move |-> NoMove, best |-> [value |-> 0, move |-> NoMove],
          seed |-> [value |-> 0, move |-> NoMove], iters |-> <<>>,
          st |-> NewSearch(c, budget, gameId), aborted |-> FALSE,
          raised |-> FALSE]
    ELSE TryBlock(agent, game, SeedBest(agent, game, legal_moves),
                  Evaluated(agent, forecast_move(game, legal_moves[1]),
                            NewSearch(c, budget, gameId)))

(***************************************************************************)
(* State machine: an agent object playing games on a board                 *)
(***************************************************************************)
\* CustomPlayer.__init__ default search_depth
DefaultSearchDepth == 3

\* the timer of a call that is never short of time
NoDeadline == 0 - 1

Methods == {"minimax", "alphabeta"}

\* the number of timer reads after which time_left() is below TIMER_THRESHOLD
Budgets == (0..MaxBudget) \cup {LongBudget}

\* CustomPlayer(search_depth, score_fn, iterative, method) registered as
\* player_1 or player_2 of the board
AgentsWith(scores) ==
    {[me |-> p, score |-> s, method |-> m, iterative |-> TRUE,
      search_depth |-> DefaultSearchDepth] :
        p \in {1, 2}, s \in scores, m \in Methods}
    \cup
    {[me |-> p, score |-> s, method |-> m, iterative |-> FALSE,
      search_depth |-> d] :
        p \in {1, 2}, s \in scores, m \in Methods, d \in 1..MaxSearchDepth}

\* agents built on the score functions of sample_players.py
Agents == AgentsWith({"null_score", "open_move_score", "improved_score"})

\* self.cache = dict()
EmptyCache == [k \in {} |-> 0]

NoPair == [value |-> 0, move |-> NoMove]

NoPrev == [move |-> NoMove, done |-> 0, aborted |-> FALSE, valid |-> FALSE]

NoCall ==
    [called |-> FALSE, count |-> 0, legal |-> <<>>, budget |-> 0,
     move |-> NoMove, best |-> NoPair, seed |-> NoPair, iters |-> <<>>,
     aborted |-> FALSE, raised |-> FALSE, evals |-> 0, evalTerminal |-> FALSE,
     reuse |-> {}, searched |-> {}, stale |-> FALSE, writes |-> <<>>,
     path |-> <<>>, returned |-> <<>>, expired |-> NotExpired,
     flags |-> {}, sinceCount |-> 0 - 1,
     prev |-> NoPrev]

NoCompare == [called |-> FALSE, depth |-> 0, ab |-> 0, mm |-> 0, reused |-> FALSE]

\* number of searches of a call that ran to completion
Completed(iters) == Cardinality({i \in 1..Len(iters) : ~iters[i].aborted})

Init ==
    /\ \E d \in GameDims : board = NewBoard(d[1], d[2])
    /\ self \in Agents
    /\ cache = EmptyCache
    /\ gameNo = 1
    /\ calls = 0
    /\ prevCount = 0 - 1
    /\ last = NoCall
    /\ pure = NoCompare

\* Board.apply_move with a move of the active player's legal moves
ApplyMove ==
    /\ \E i \in 1..Len(active_moves(board)) :
          board' = apply_move(board, active_moves(board)[i])
    /\ calls' = 0
    /\ last' = NoCall
    /\ UNCHANGED <<self, cache, gameNo, prevCount, pure>>

\* self.get_move(game, game.get_legal_moves(), time_left) while the agent is
\* the active player; the timer falls below TIMER_THRESHOLD after budget reads
GetMoveWith(budgets, maxCalls) ==
    /\ self.me = board.active_player
    /\ calls < maxCalls
    /\ \E budget \in budgets :
       \E out \in {get_move(self, board, active_moves(board), cache, budget,
                            gameNo)} :
            /\ cache' = out.st.cache
            /\ last' = [called |-> TRUE, count |-> board.move_count,
                        legal |-> active_moves(board), budget |-> budget, move |-> out.move,
                        best |-> out.best, seed |-> out.seed,
                        iters |-> out.iters, aborted |-> out.aborted,
                        raised |-> out.raised, evals |-> out.st.evals,
                        evalTerminal |-> out.st.evalTerminal,
                        reuse |-> out.st.reuse, searched |-> out.st.searched,
                        stale |-> out.st.stale, writes |-> out.st.writes,
                        path |-> out.st.path, returned |-> out.st.returned,
                        expired |-> out.st.expired, flags |-> out.st.flags,
                        sinceCount |-> prevCount,
                        prev |-> IF calls > 0
                                 THEN [move |-> last.move,
                                       done |-> Completed(last.iters),
                                       aborted |-> last.aborted, valid |-> TRUE]
                                 ELSE NoPrev]
    /\ calls' = calls + 1
    /\ prevCount' = board.move_count
    /\ UNCHANGED <<board, self, gameNo, pure>>

GetMove == GetMoveWith(Budgets, MaxCallsPerBoard)

\* tournament.play_match: the same agent objects are registered on a new
\* Board, in the other order
NewGame ==
    /\ gameNo < MaxGames
    /\ \E d \in GameDims : board' = NewBoard(d[1], d[2])
    /\ self' = [self EXCEPT !.me = 3 - self.me]
    /\ gameNo' = gameNo + 1
    /\ calls' = 0
    /\ last' = NoCall
    /\ UNCHANGED <<cache, prevCount, pure>>

Next == ApplyMove \/ GetMove

Spec == Init /\ [][Next]_vars

(***************************************************************************)
(* The same agent object over several games, each turn played once with a  *)
(* long deadline                                                           *)
(***************************************************************************)
InitGames ==
    /\ Init
    /\ self.method = "alphabeta"
    /\ self.score = "improved_score"
    /\ ~self.iterative

GetMoveUnhurried == GetMoveWith({LongBudget}, 1)

NextGames == ApplyMove \/ GetMoveUnhurried \/ NewGame

SpecGames == InitGames /\ [][NextGames]_vars

(***************************************************************************)
(* Direct comparison of the two search functions on one position           *)
(***************************************************************************)
InitCompare ==
    /\ \E d \in CompareDims : board = NewBoard(d[1], d[2])
    /\ self \in {a \in AgentsWith(ScoreFns) :
                    a.me = 1 /\ a.method = "alphabeta" /\ a.iterative}
    /\ cache = EmptyCache
    /\ gameNo = 1
    /\ calls = 0
    /\ prevCount = 0 - 1
    /\ last = NoCall
    /\ pure = NoCompare

\* a position reached by legal play
ExtendRoot ==
    /\ board.move_count < MaxComparePlies
    /\ \E i \in 1..Len(active_moves(board)) :
          board' = apply_move(board, active_moves(board)[i])
    /\ pure' = NoCompare
    /\ UNCHANGED <<self, cache, gameNo, calls, prevCount, last>>

\* alphabeta(game, depth) and minimax(game, depth) with their default
\* arguments, by the player to move, on an empty cache
Compare ==
    /\ ~pure.called
    /\ \E depth \in 0..MaxCompareDepth :
         LET agent == [self EXCEPT !.me = board.active_player]
             ab == alphabeta(agent, board, depth, -Inf, Inf, TRUE,
                             NewSearch(EmptyCache, NoDeadline, gameNo))
             mm == minimax(agent, board, depth, TRUE,
                           NewSearch(EmptyCache, NoDeadline, gameNo))
         IN pure' = [called |-> TRUE, depth |-> depth, ab |-> ab.value,
                     mm |-> mm.value, reused |-> ab.st.reuse # {}]
    /\ UNCHANGED <<board, self, cache, gameNo, calls, prevCount, last>>

NextCompare == ExtendRoot \/ Compare

SpecCompare == InitCompare /\ [][NextCompare]_vars

(***************************************************************************)
(* The Board on its own: every position of legal play                      *)
(***************************************************************************)
InitBoard ==
    /\ \E d \in BoardDims : board = NewBoard(d[1], d[2])
    /\ self \in {a \in Agents : a.me = 1 /\ a.method = "minimax"
                                /\ a.score = "null_score" /\ a.iterative}
    /\ cache = EmptyCache
    /\ gameNo = 1
    /\ calls = 0
    /\ prevCount = 0 - 1
    /\ last = NoCall
    /\ pure = NoCompare

SpecBoard == InitBoard /\ [][ApplyMove]_vars

(***************************************************************************)
(* apply_move called by a client with a move of its own choosing           *)
(***************************************************************************)
\* the pairs a client passes: the cells of the board and a margin around it
CallCells(b) == ((0 - 1)..b.height) \X ((0 - 1)..b.width)

ApplyMoveLegal == ~pure.called /\ ApplyMove

ApplyMoveCall ==
    /\ ~pure.called
    /\ \E move \in CallCells(board) :
          /\ board' = apply_move_call(board, move).board
          /\ pure' = [called |-> TRUE, before |-> board, move |-> move,
                      raised |-> apply_move_call(board, move).raised]
    /\ UNCHANGED <<self, cache, gameNo, calls, prevCount, last>>

NextApply == ApplyMoveLegal \/ ApplyMoveCall

SpecApply == InitBoard /\ [][NextApply]_vars

(***************************************************************************)
(* Board objects on the heap: the attributes of an object are its own, its *)
(* locations attribute refers to a dict that apply_move changes in place   *)
(***************************************************************************)
\* a heap with one Board object whose value is b
HeapOf(b) ==
    [objs |-> <<[b EXCEPT !.locations = 1]>>, dicts |-> <<b.locations>>]

\* the value of the Board object ref
Deref(h, ref) ==
    [h.objs[ref] EXCEPT !.locations = h.dicts[h.objs[ref].locations]]

\* a copy that takes over the reference to the receiver's dict
heap_copy_SharedDict(h, ref) ==
    [h EXCEPT !.objs = Append(h.objs, h.objs[ref])]

\* Board.copy : a new object with the receiver's attributes and a new dict
\* {key: val for key, val in self.locations.items()}
heap_copy(h, ref) ==
    [objs |-> Append(h.objs,
                     [h.objs[ref] EXCEPT !.locations = Len(h.dicts) + 1]),
     dicts |-> Append(h.dicts, h.dicts[h.objs[ref].locations])]

\* Board.apply_move on the object ref: its attributes are reassigned, the
\* dict it refers to is updated
heap_apply_move(h, ref, move) ==
    [objs |-> [h.objs EXCEPT ![ref] =
                  [apply_move(Deref(h, ref), move)
                      EXCEPT !.locations = h.objs[ref].locations]],
     dicts |-> [h.dicts EXCEPT ![h.objs[ref].locations] =
                  apply_move(Deref(h, ref), move).locations]]

\* Board.forecast_move on the object ref: the returned object is the last
\* object of the heap
heap_forecast_move(h, ref, move) ==
    heap_apply_move(heap_copy(h, ref), Len(h.objs) + 1, move)

\* the caller goes on playing on the returned board: its j-th legal move is
\* applied to it, none for j = 0
PlayOn(h, ref, j) ==
    IF j = 0 THEN h
    ELSE heap_apply_move(h, ref, active_moves(Deref(h, ref))[j])

\* game.forecast_move(move) on the board, followed by at most one move on
\* the returned board
ForecastMove ==
    /\ ~pure.called
    /\ \E i \in 1..Len(active_moves(board)) :
       \E h \in {heap_forecast_move(HeapOf(board), 1, active_moves(board)[i])} :
       \E j \in 0..Len(active_moves(Deref(h, 2))) :
          /\ pure' = [called |-> TRUE, before |-> board,
                      move |-> active_moves(board)[i],
                      returned |-> Deref(h, 2), receiver |-> Deref(h, 1),
                      later |-> j > 0]
          /\ board' = Deref(PlayOn(h, 2, j), 1)
    /\ UNCHANGED <<self, cache, gameNo, calls, prevCount, last>>

NextForecast == ApplyMoveLegal \/ ForecastMove

SpecForecast == InitBoard /\ [][NextForecast]_vars

(***************************************************************************)
(* Two Boards of the same dimensions, each advanced by legal moves         *)
(***************************************************************************)
InitPair ==
    /\ \E d \in PairDims :
          /\ board = NewBoard(d[1], d[2])
          /\ pure = [called |-> FALSE, other |-> NewBoard(d[1], d[2])]
    /\ self \in {a \in Agents : a.me = 1 /\ a.method = "minimax"
                                /\ a.score = "null_score" /\ a.iterative}
    /\ cache = EmptyCache
    /\ gameNo = 1
    /\ calls = 0
    /\ prevCount = 0 - 1
    /\ last = NoCall

\* Board.apply_move on the second board
ApplyMoveOther ==
    /\ \E i \in 1..Len(active_moves(pure.other)) :
          pure' = [pure EXCEPT !.other =
                      apply_move(pure.other, active_moves(pure.other)[i])]
    /\ UNCHANGED <<board, self, cache, gameNo, calls, prevCount, last>>

NextPair == ApplyMove \/ ApplyMoveOther

SpecPair == InitPair /\ [][NextPair]_vars

(***************************************************************************)
(* Board.play: the match loop, one turn per step. The players are any      *)
(* objects whose get_move(board, time_left) returns.                       *)
(***************************************************************************)
NoPlay ==
    [called |-> FALSE, done |-> FALSE, history |-> <<>>, startCount |-> 0,
     lastMover |-> 0, clean |-> TRUE, winner |-> 0, reason |-> "",
     limited |-> <<TRUE, TRUE>>,
     asked |-> [move |-> NoMove, expired |-> FALSE, tampered |-> FALSE]]

InitPlay ==
    /\ \E d \in PlayDims : board = NewBoard(d[1], d[2])
    /\ self \in {a \in Agents : a.me = 1 /\ a.method = "minimax"
                                /\ a.score = "null_score" /\ a.iterative}
    /\ cache = EmptyCache
    /\ gameNo = 1
    /\ calls = 0
    /\ prevCount = 0 - 1
    /\ last = NoCall
    /\ \E l \in BOOLEAN \X BOOLEAN : pure = [NoPlay EXCEPT !.limited = l]

\* tournament.play_match: starting positions applied before play is called
Opening ==
    /\ ~pure.called
    /\ board.move_count < MaxOpeningPlies
    /\ \E i \in 1..Len(active_moves(board)) :
          board' = apply_move(board, active_moves(board)[i])
    /\ pure' = [pure EXCEPT !.lastMover = board.active_player]
    /\ UNCHANGED <<self, cache, gameNo, calls, prevCount, last>>

\* play(): history = []
PlayCall ==
    /\ ~pure.called
    /\ pure' = [pure EXCEPT !.called = TRUE, !.history = <<>>,
                            !.startCount = board.move_count]
    /\ UNCHANGED <<board, self, cache, gameNo, calls, prevCount, last>>

\* the winner a finished match reports, taken to be the player to move
Winner_Active(b) == b.active_player

\* return self.inactive_player, history, reason
Winner(b) == b.inactive_player

\* what get_move may return: a legal move or anything else
Answers(b) == Range(active_moves(b)) \cup {NoMove}

\* a test that forfeits the turn of any player whose time ran out
Forfeits_AnyPlayer(time_limited, expired) == expired

\* if remaining < 0 and self.active_player.is_time_limited
Forfeits(time_limited, expired) == expired /\ time_limited

\* a play that passes the game's own Board object to the player
game_copy_Self(h) == [heap |-> h, ref |-> 1]

\* game_copy = self.copy(), self being object 1 of the heap: the heap after
\* the copy and the reference passed to get_move
game_copy(h) == [heap |-> heap_copy(h, 1), ref |-> Len(h.objs) + 1]

\* one turn of the while loop: the active player's get_move applies its j-th
\* legal move to the board it received (none for j = 0) and returns move,
\* expired says that remaining < 0 when it returned; mine is the game's own
\* board after the call; pure.limited holds the is_time_limited property of
\* the two players
PlayTurn ==
    /\ pure.called /\ ~pure.done
    /\ \E move \in Answers(board), expired \in BOOLEAN,
          j \in 0..Len(active_moves(board)) :
       \E asked \in {[move |-> move, expired |-> expired, tampered |-> j > 0]},
          mine \in {Deref(PlayOn(game_copy(HeapOf(board)).heap,
                                 game_copy(HeapOf(board)).ref, j), 1)} :
          IF Forfeits(pure.limited[mine.active_player], expired)
          THEN /\ pure' = [pure EXCEPT !.done = TRUE, !.reason = "timeout",
                                       !.winner = Winner(mine),
                                       !.clean = FALSE, !.asked = asked]
               /\ board' = mine
          ELSE IF ~InSeq(active_moves(mine), move)
          THEN /\ pure' = [pure EXCEPT
                              !.done = TRUE, !.reason = "illegal move",
                              !.winner = Winner(mine),
                              !.clean = pure.clean
                                           /\ Len(active_moves(mine)) = 0,
                              !.asked = asked]
               /\ board' = mine
          ELSE /\ board' = apply_move(mine, move)
               /\ pure' = [pure EXCEPT !.history = Append(pure.history, move),
                                       !.lastMover = mine.active_player,
                                       !.asked = asked]
    /\ UNCHANGED <<self, cache, gameNo, calls, prevCount, last>>

NextPlay == Opening \/ PlayCall \/ PlayTurn

\* the loop goes on to its next turn as long as get_move returns
SpecPlay == InitPlay /\ [][NextPlay]_vars /\ WF_vars(PlayTurn)

(***************************************************************************)
(* Properties                                                              *)
(***************************************************************************)
\* C1: get_move returns one of the legal moves whenever there is one, and
\* (-1, -1) only when there is none
C1_ReturnsLegalMove ==
    last.called =>
        /\ Len(last.legal) > 0 => InSeq(last.legal, last.move)
        /\ last.move = NoMove => Len(last.legal) = 0

\* C2: from an empty cache, alphabeta with the full window returns the value
\* minimax returns for the same position and depth
C2_AlphabetaEqualsMinimax == pure.called => pure.ab = pure.mm

\* C3: a call that finds the timer already below the margin returns the first
\* enumerated legal move, never (-1, -1)
C3_ImmediateTimeoutFallback ==
    (last.called /\ last.budget = 0 /\ Len(last.legal) > 0) =>
        /\ last.move = last.legal[1]
        /\ last.move # NoMove

C3_Witness ==
    /\ last.called /\ last.budget = 0 /\ Len(last.legal) > 1
    /\ last.aborted /\ Completed(last.iters) = 0

\* C4: the Timeout never leaves get_move, and the aborted search leaves the
\* best pair as it was after the last completed depth, or as seeded when no
\* depth completed
C4_TimeoutContained ==
    last.called =>
        /\ ~last.raised
        /\ \A i \in 1..Len(last.iters) :
              last.iters[i].aborted =>
                 /\ last.iters[i].best =
                       (IF i = 1 THEN last.seed ELSE last.iters[i - 1].best)
                 /\ last.best = last.iters[i].best

C4_Witness ==
    /\ last.called /\ last.aborted
    /\ Completed(last.iters) >= 2
    /\ last.best # last.seed

\* C5: a get_move call on a board with fewer moves played than at the agent's
\* previous call reads no cache entry written before the new game
C5_NewGameReadsNoOldEntry ==
    (last.called /\ last.sinceCount >= 0 /\ last.count < last.sinceCount) =>
        ~last.stale

\* C6: alphabeta takes a child's value from the cache only when the child has
\* an entry whose depth is at least depth - 1
C6_ReuseOnlyDeepEnough ==
    last.called =>
        \A n \in last.reuse : n[1] /\ n[2] >= n[3]

C6_Witness ==
    /\ last.called
    /\ \E n \in last.reuse : n[3] >= 1
    /\ \E n \in last.searched : n[1] /\ n[2] < n[3]
    /\ \E n \in last.searched : ~n[1]

\* C7: without a legal move for the active player the utility is -inf for
\* the active and +inf for the inactive player; otherwise it is 0 for both
C7_Utility ==
    IF Len(get_legal_moves(board, board.active_player)) = 0
    THEN /\ utility(board, board.active_player) = -Inf
         /\ utility(board, inactive_player(board)) = Inf
    ELSE /\ utility(board, 1) = 0
         /\ utility(board, 2) = 0

C7_Witness ==
    /\ Len(get_legal_moves(board, board.active_player)) = 0
    /\ board.move_count >= 3

\* C8: during a get_move call the score function is only invoked on states
\* whose active player has a legal move
C8_ScoreOnlyOnNonTerminal == last.called => ~last.evalTerminal

\* C9: a second get_move call on the same board that completes the same
\* searches as the first returns the same move
C9_SecondCallSameMove ==
    (/\ last.called /\ last.prev.valid
     /\ Completed(last.iters) >= 1
     /\ Completed(last.iters) = last.prev.done
     /\ last.aborted = last.prev.aborted) =>
        last.move = last.prev.move

\* C10: an iterative-deepening call aborted after at least one completed
\* depth returns the move of the last completed depth
C10_ReturnsLastCompletedDepth ==
    (/\ last.called /\ self.iterative /\ last.aborted
     /\ Completed(last.iters) >= 1) =>
        last.move = last.iters[Completed(last.iters)].move

\* C11: with iterative deepening the searches of a call run at depths
\* 1, 2, 3, ... and no search is started at a depth above
\* width * height - move_count, so that the loop ends without a timeout
C11_DepthBounded ==
    (last.called /\ self.iterative) =>
        \A i \in 1..Len(last.iters) :
            /\ last.iters[i].depth = i
            /\ last.iters[i].depth
                  <= board.width * board.height - board.move_count

\* the cells of the board whose bit in board_state is 0
Unoccupied(b) ==
    {cell \in (0..(b.height - 1)) \X (0..(b.width - 1)) :
        (b.board_state \div CellBit(b, cell)) % 2 = 0}

\* the cells a knight's move away from the player's cell
KnightTargets(b, player) ==
    {<<b.locations[player][1] + L_MOVES[k][1],
       b.locations[player][2] + L_MOVES[k][2]>> : k \in 1..Len(L_MOVES)}

NoDuplicates(s) == \A i, j \in 1..Len(s) : s[i] = s[j] => i = j

\* C13: for either player get_legal_moves returns, without raising, exactly
\* the unoccupied cells when the player is not placed yet and exactly the
\* unoccupied cells a knight's move away from the player's cell otherwise
C13_LegalMoves ==
    \A p \in {1, 2} :
        /\ ~get_legal_moves_raises(board, p)
        /\ NoDuplicates(get_legal_moves(board, p))
        /\ Range(get_legal_moves(board, p)) =
              (IF board.locations[p] = NOT_MOVED THEN Unoccupied(board)
               ELSE KnightTargets(board, p) \cap Unoccupied(board))

RECURSIVE PopCount(_)
PopCount(n) == IF n = 0 THEN 0 ELSE (n % 2) + PopCount(n \div 2)

\* C14: after any sequence of legal moves the active and the inactive player
\* are the two registered players, the cell of every placed player is marked
\* in board_state, and board_state has move_count bits set
C14_BoardInvariant ==
    /\ {board.active_player, board.inactive_player} = {1, 2}
    /\ \A p \in {1, 2} :
          board.locations[p] # NOT_MOVED =>
              board.locations[p] \notin Unoccupied(board)
    /\ PopCount(board.board_state) = board.move_count

C14_Witness ==
    /\ board.move_count >= 4
    /\ board.active_player = 1
    /\ Len(active_moves(board)) > 0

\* C16: for every legal move of the active player forecast_key gives the
\* key of the board forecast_move returns
C16_ForecastKey ==
    \A i \in 1..Len(active_moves(board)) :
        forecast_key(board, active_moves(board)[i])
            = get_key(forecast_move(board, active_moves(board)[i]))

C16_Witness ==
    /\ board.active_player = 2
    /\ board.locations[2] # NOT_MOVED
    /\ Len(active_moves(board)) >= 2

\* C12: apply_move with a move that is not a legal move of the active player
\* fails with an error and leaves the board as it was
C12_IllegalMoveRejected ==
    (pure.called /\ ~InSeq(active_moves(pure.before), pure.move)) =>
        /\ pure.raised
        /\ board = pure.before

\* C15: forecast_move returns a board equal to the receiver with the move
\* applied and leaves the receiver as it was, also after a later move on the
\* returned board
C15_ForecastLeavesReceiver ==
    pure.called =>
        /\ pure.returned = apply_move(pure.before, pure.move)
        /\ pure.receiver = pure.before
        /\ board = pure.before

C15_Witness ==
    /\ pure.called /\ pure.later
    /\ pure.before.move_count >= 2

\* what get_legal_moves(player) gives: the list, or the ValueError
LegalOutcome(b, player) ==
    IF get_legal_moves_raises(b, player) THEN <<"ValueError">>
    ELSE get_legal_moves(b, player)

\* the keys of the boards after each legal move of the active player
SuccessorKeys(b) ==
    [i \in 1..Len(active_moves(b)) |->
        get_key(apply_move(b, active_moves(b)[i]))]

\* C17: two boards of the same dimensions with equal keys have the same
\* legal moves and the same utility for each player and the same successor
\* keys under every legal move
C17_KeyDeterminesSearch ==
    get_key(board) = get_key(pure.other) =>
        /\ \A p \in {1, 2} :
              /\ LegalOutcome(board, p) = LegalOutcome(pure.other, p)
              /\ utility(board, p) = utility(pure.other, p)
        /\ SuccessorKeys(board) = SuccessorKeys(pure.other)

C17_Witness ==
    /\ get_key(board) = get_key(pure.other)
    /\ board.move_count >= 3
    /\ Len(active_moves(board)) > 0

\* the unoccupied cells a knight's move away from a cell
Hops(b, cell) ==
    {<<cell[1] + L_MOVES[k][1], cell[2] + L_MOVES[k][2]>> :
        k \in 1..Len(L_MOVES)} \cap Unoccupied(b)

\* the cells at most d knight's moves away from the player's cell, going
\* through unoccupied cells only
RECURSIVE Within(_, _, _)
Within(b, player, d) ==
    IF d = 0 THEN {b.locations[player]}
    ELSE LET nearer == Within(b, player, d - 1)
         IN nearer \cup UNION {Hops(b, cell) : cell \in nearer}

RECURSIVE Flatten(_)
Flatten(buckets) ==
    IF buckets = <<>> THEN <<>> ELSE Head(buckets) \o Flatten(Tail(buckets))

\* C18: for a placed player get_reachable_locations returns buckets of which
\* the first is the player's legal moves, bucket d holds exactly the cells
\* whose shortest knight path through unoccupied cells has d moves, and every
\* cell that can be reached is in the buckets exactly once
C18_ReachableByDistance ==
    \A p \in {1, 2} :
        board.locations[p] # NOT_MOVED =>
            LET buckets == get_reachable_locations(board, p) IN
            /\ Len(buckets) > 0 => buckets[1] = get_legal_moves(board, p)
            /\ \A d \in 1..Len(buckets) :
                  Range(buckets[d]) =
                      Within(board, p, d) \ Within(board, p, d - 1)
            /\ NoDuplicates(Flatten(buckets))
            /\ Range(Flatten(buckets)) =
                  Within(board, p, board.width * board.height)
                      \ {board.locations[p]}

C18_Witness ==
    /\ board.move_count >= 3
    /\ \E p \in {1, 2} :
          /\ board.locations[p] # NOT_MOVED
          /\ Len(get_reachable_locations(board, p)) >= 3
          /\ Len(get_reachable_locations(board, p)[2]) >= 2

\* the cells the rules let the player move to
LegalCells(b, player) ==
    IF b.locations[player] = NOT_MOVED THEN Unoccupied(b)
    ELSE KnightTargets(b, player) \cap Unoccupied(b)

\* C19: get_reachable_locations returns the empty mapping exactly when the
\* player has no legal move, as for a player on the centre of an otherwise
\* empty 3x3 board
C19_EmptyIffNoLegalMove ==
    /\ \A p \in {1, 2} :
          (/\ ~get_legal_moves_raises(board, p)
           /\ get_reachable_locations(board, p) = <<>>)
              <=> LegalCells(board, p) = {}
    /\ (/\ board.width = 3 /\ board.height = 3 /\ board.move_count = 1
        /\ board.locations[1] = <<1, 1>>) =>
           get_reachable_locations(board, 1) = <<>>

C19_Witness ==
    /\ board.width = 3 /\ board.height = 3 /\ board.move_count = 1
    /\ board.locations[1] = <<1, 1>>
    /\ get_reachable_locations(board, 1) = <<>>

\* C20: play ends, after applying at most width * height - move_count moves,
\* and when nobody timed out and every player returned a legal move whenever
\* it had one, the winner it returns is the last player who moved
C20_PlayTerminates ==
    /\ [](pure.called =>
            Len(pure.history)
                <= board.width * board.height - pure.startCount)
    /\ []((pure.done /\ pure.clean) => pure.winner = pure.lastMover)
    /\ (pure.called ~> pure.done)

C20_Witness ==
    /\ pure.done /\ pure.clean
    /\ pure.reason = "illegal move"
    /\ Len(pure.history) >= 3
    /\ pure.winner = 2

(***************************************************************************)
(* The transposition table against the exact game-tree values              *)
(***************************************************************************)
\* number of cells taken in a board_state over n cells
RECURSIVE BitCount(_, _)
BitCount(board_state, n) ==
    IF n = 0 THEN 0
    ELSE (board_state % 2) + BitCount(board_state \div 2, n - 1)

\* the board of dimensions w x h whose get_key() is key
BoardOfKey(key, w, h) ==
    [width |-> w, height |-> h, move_count |-> BitCount(key[1], w * h),
     active_player |-> IF key[4] THEN 1 ELSE 2,
     inactive_player |-> IF key[4] THEN 2 ELSE 1,
     board_state |-> key[1], locations |-> <<key[2], key[3]>>]

\* the depth-d minimax value of a state for the agent: the agent's own turns
\* are the maximizing layers
ExactValue(agent, game, depth) ==
    minimax(agent, game, depth, game.active_player = agent.me,
            NewSearch(EmptyCache, NoDeadline, 0)).value

\* C21: every entry (value, d) of the agent's cache under key k holds the
\* exact depth-d minimax value, for the agent, of the state with key k, also
\* when the node that wrote it left its loop on a cutoff
C21_CacheEntriesExact ==
    \A k \in DOMAIN cache :
        cache[k].value
            = ExactValue(self, BoardOfKey(k, board.width, board.height),
                         cache[k].depth)

\* largest depth at which a root is searched again against the cache left
\* by the earlier calls
MaxRootDepth == 3

\* alphabeta(game, depth) with its default arguments, run against the cache c
AlphabetaOnCache(agent, game, depth, c) ==
    alphabeta(agent, game, depth, -Inf, Inf, TRUE,
              NewSearch(c, NoDeadline, 0)).value

\* the agent is to move and has made a get_move call earlier in this game
LaterCall ==
    /\ self.method = "alphabeta"
    /\ self.me = board.active_player
    /\ calls = 0
    /\ cache # EmptyCache
    /\ prevCount >= 0 /\ prevCount < board.move_count

\* C22: at a get_move call after the agent's first of the game,
\* alphabeta(root, d) run against the cache left by the earlier calls
\* returns the value of minimax(root, d)
C22_LaterCallEqualsMinimax ==
    LaterCall =>
        \A d \in 1..MaxRootDepth :
            AlphabetaOnCache(self, board, d, cache) = ExactValue(self, board, d)

\* C23: within one game the depth tagged on the entry of a key never
\* decreases from one write to the next
C23_DepthNeverDecreases ==
    last.called =>
        \A i \in 1..Len(last.writes) : last.writes[i][3] <= last.writes[i][2]

\* C24: with iterative deepening, a completed search that returns +inf is the
\* last search the call starts, and the call returns that search's move
C24_StopsOnProvenWin ==
    (last.called /\ self.iterative) =>
        \A i \in 1..Len(last.iters) :
            (~last.iters[i].aborted /\ last.iters[i].value = Inf) =>
                /\ i = Len(last.iters)
                /\ last.move = last.iters[i].move

(***************************************************************************)
(* minimax called on its own, on any position of legal play                *)
(***************************************************************************)
\* plies played before a position is handed to minimax
MaxMinimaxPlies == 3
\* largest depth minimax is called with
MaxMinimaxDepth == 3
\* board dimensions on which minimax is called on its own
MinimaxDims == {<<3, 3>>}

NoMinimax ==
    [called |-> FALSE, depth |-> 0, maximizing |-> TRUE, raised |-> FALSE,
     value |-> 0, move |-> NoMove]

\* self.score(game, self) raises the ValueError of get_legal_moves: the
\* score functions that count moves ask for player_2's moves on a board
\* nobody is placed on
score_raises(agent, game) ==
    /\ utility(game, agent.me) = 0
    /\ \/ /\ agent.score = "open_move_score"
          /\ get_legal_moves_raises(game, agent.me)
       \/ /\ agent.score = "improved_score"
          /\ \/ get_legal_moves_raises(game, agent.me)
             \/ get_legal_moves_raises(game, get_opponent(game, agent.me))

InitMinimax ==
    /\ \E d \in MinimaxDims : board = NewBoard(d[1], d[2])
    /\ self \in {a \in AgentsWith(ScoreFns) : a.method = "minimax" /\ a.iterative}
    /\ cache = EmptyCache
    /\ gameNo = 1
    /\ calls = 0
    /\ prevCount = 0 - 1
    /\ last = NoCall
    /\ pure = NoMinimax

\* a position reached by legal play
ExtendMinimaxRoot ==
    /\ board.move_count < MaxMinimaxPlies
    /\ \E i \in 1..Len(active_moves(board)) :
          board' = apply_move(board, active_moves(board)[i])
    /\ pure' = NoMinimax
    /\ UNCHANGED <<self, cache, gameNo, calls, prevCount, last>>

\* self.minimax(game, depth, maximizing_player) with a timer that never runs
\* short; only the root is scored at depth <= 0, so only there can the score
\* function meet the board nobody is placed on
MinimaxCall ==
    /\ ~pure.called
    /\ \E depth \in (0 - 1)..MaxMinimaxDepth, maximizing_player \in BOOLEAN :
       \E r \in {minimax(self, board, depth, maximizing_player,
                         NewSearch(EmptyCache, NoDeadline, gameNo))} :
          pure' = [called |-> TRUE, depth |-> depth,
                   maximizing |-> maximizing_player,
                   raised |-> depth <= 0 /\ score_raises(self, board),
                   value |-> r.value, move |-> r.move]
    /\ UNCHANGED <<board, self, cache, gameNo, calls, prevCount, last>>

NextMinimax == ExtendMinimaxRoot \/ MinimaxCall

SpecMinimax == InitMinimax /\ [][NextMinimax]_vars

\* the depth-limited game-tree value by its definition
RECURSIVE TreeValue(_, _, _, _)
TreeValue(agent, game, depth, maximizing) ==
    IF Len(active_moves(game)) = 0 THEN utility(game, agent.me)
    ELSE IF depth <= 0 THEN score(agent, game)
    ELSE LET vals == {TreeValue(agent, forecast_move(game, active_moves(game)[i]),
                                depth - 1, ~maximizing) :
                         i \in 1..Len(active_moves(game))}
         IN IF maximizing
            THEN CHOOSE v \in vals : \A u \in vals : u <= v
            ELSE CHOOSE v \in vals : \A u \in vals : v <= u

\* the first legal move, in the order of get_legal_moves, whose child has
\* the value v at depth - 1
FirstMoveWith(agent, game, depth, maximizing, v) ==
    LET legal == active_moves(game)
        Hit(i) == TreeValue(agent, forecast_move(game, legal[i]), depth - 1,
                            ~maximizing) = v
    IN legal[CHOOSE i \in 1..Len(legal) :
                Hit(i) /\ \A j \in 1..(i - 1) : ~Hit(j)]

AlphabetaMove(agent, game, depth) ==
    alphabeta(agent, game, depth, -Inf, Inf, game.active_player = agent.me,
              NewSearch(EmptyCache, NoDeadline, 0)).move

\* C26: alphabeta with depth >= 1 on a state whose active player has a legal
\* move returns one of those legal moves, whatever the children's values
C26_AlphabetaReturnsLegalMove ==
    (self.method = "alphabeta" /\ Len(active_moves(board)) > 0) =>
        \A d \in 1..MaxRootDepth :
            AlphabetaMove(self, board, d) \in Range(active_moves(board))

\* the keys assigned to during the call, from its record of writes
WrittenKeys(writes) == {writes[j][1] : j \in 1..Len(writes)}

\* C27: when a search is aborted, no entry is written for the node at which
\* the Timeout was raised nor for any node still on the call stack, and the
\* cache changes only under the keys written by calls that had returned
C27_AbortWritesNoStackNode ==
    [][(last'.called /\ last'.aborted) =>
          /\ \A i \in 1..Len(last'.path) : \A j \in 1..Len(last'.writes) :
                ~(/\ last'.writes[j][1] = last'.path[i][1]
                  /\ last'.writes[j][2] = last'.path[i][2])
          /\ \A k \in DOMAIN cache' :
                (k \notin DOMAIN cache \/ cache'[k] # cache[k]) =>
                    k \in WrittenKeys(last'.writes)]_vars

\* an alphabeta search aborted below the root after a child of the root had
\* returned and been cached during that search
C27_Witness ==
    /\ last.called /\ last.aborted
    /\ self.method = "alphabeta"
    /\ Len(last.path) >= 3
    /\ \E j \in 1..Len(last.writes) :
          last.writes[j][2] = last.path[1][2] - 1

\* C28: a minimax or alphabeta call entered with less than the margin left
\* aborts the search, and from that timer read to the end of the get_move
\* call no state is expanded, evaluated or cached
C28_NothingAfterExpiry ==
    (last.called /\ last.aborted) =>
        /\ last.expired.hit
        /\ last.evals = last.expired.evals
        /\ Len(last.writes) = last.expired.writes
        /\ last.searched = last.expired.searched
        /\ last.reuse = last.expired.reuse
        /\ last.iters[Len(last.iters)].aborted
        /\ Completed(last.iters) = Len(last.iters) - 1

\* a call aborted after a completed search, with states evaluated and cached
\* before the timer ran out
C28_Witness ==
    /\ last.called /\ last.aborted
    /\ Completed(last.iters) >= 1
    /\ last.expired.evals >= 3
    /\ last.expired.writes >= 3

\* the reverse argument alphabeta passes for a state: True at the layers
\* where the agent is to move
ReverseAt(agent, game) == game.active_player = agent.me

\* C29: get_sorted_moves returns every legal move of the active player
\* exactly once, by non-increasing cached value at the maximizing layers and
\* by non-decreasing cached value at the minimizing layers, every move
\* without an entry (depth -1) behind all moves that have one
C29_SortedMoves ==
    LET moves == get_sorted_moves(board, ReverseAt(self, board), cache) IN
    /\ Len(moves) = Len(active_moves(board))
    /\ \A k \in 1..Len(active_moves(board)) :
          Cardinality({i \in 1..Len(moves) :
                          moves[i].move = active_moves(board)[k]}) = 1
    /\ \A i, j \in 1..Len(moves) :
          i < j =>
            /\ IF ReverseAt(self, board)
               THEN moves[i].value >= moves[j].value
               ELSE moves[i].value <= moves[j].value
            /\ ~(moves[i].depth = 0 - 1 /\ moves[j].depth # 0 - 1)

\* the last write of the call under key
LastWrite(writes, key) ==
    writes[CHOOSE j \in 1..Len(writes) :
              /\ writes[j][1] = key
              /\ \A l \in (j + 1)..Len(writes) : writes[l][1] # key]

\* C30: each alphabeta call that returns makes exactly one cache assignment,
\* under the key of its own state and with its own depth, and changes no
\* other entry; minimax never reads or writes the cache
C30_OneWritePerReturn ==
    [][last'.called =>
          /\ Len(last'.writes) = Len(last'.returned)
          /\ \A j \in 1..Len(last'.writes) :
                /\ last'.writes[j][1] = last'.returned[j][1]
                /\ last'.writes[j][2] = last'.returned[j][2]
          /\ \A k \in DOMAIN cache' :
                IF k \in WrittenKeys(last'.writes)
                THEN cache'[k].depth = LastWrite(last'.writes, k)[2]
                ELSE k \in DOMAIN cache /\ cache'[k] = cache[k]
          /\ self.method = "minimax" =>
                /\ cache' = cache
                /\ last'.writes = <<>>
                /\ last'.reuse = {}]_vars

\* an alphabeta call in which several calls returned and an entry was
\* replaced
C30_Witness ==
    /\ last.called /\ self.method = "alphabeta"
    /\ Len(last.returned) >= 3
    /\ \E j \in 1..Len(last.writes) : last.writes[j][3] >= 0

\* the cells of the board
Cells(b) == (0..(b.height - 1)) \X (0..(b.width - 1))

\* the cells whose bit is set in board_state
Occupied(b) == {cell \in Cells(b) : ~is_available(b, b.board_state, cell)}

\* C31: apply_move on a legal move m records m as the mover's position, marks
\* m occupied, exchanges the active and the inactive player and adds 1 to
\* move_count; the other player's position, the occupancy of every other
\* cell and the dimensions stay as they were
C31_ApplyMoveEffect ==
    [][\E m \in Range(active_moves(board)) :
          /\ board'.locations[board.active_player] = m
          /\ m \in Occupied(board')
          /\ board'.active_player = board.inactive_player
          /\ board'.inactive_player = board.active_player
          /\ board'.move_count = board.move_count + 1
          /\ board'.locations[board.inactive_player]
                = board.locations[board.inactive_player]
          /\ Occupied(board') \ {m} = Occupied(board)
          /\ board'.width = board.width
          /\ board'.height = board.height]_vars

\* a knight's move of player_1 applied while player_2 stands elsewhere
C31_Witness ==
    /\ board.move_count = 3
    /\ board.active_player = 2
    /\ board.locations[2] # NOT_MOVED
    /\ {board.locations[1], board.locations[2]} \subseteq Occupied(board)
    /\ Cardinality(Occupied(board)) = 3

\* C32: along the moves of a game, applied by apply_move or by play, a cell
\* once occupied stays occupied and every applied move adds exactly one cell
C32_OccupiedOnlyGrows ==
    [][/\ Occupied(board) \subseteq Occupied(board')
       /\ board' # board =>
             Cardinality(Occupied(board')) = Cardinality(Occupied(board)) + 1]_vars

\* a match in which play has applied moves on top of the opening ones
C32_Witness ==
    /\ pure.called
    /\ pure.startCount = 2
    /\ Len(pure.history) >= 2
    /\ Cardinality(Occupied(board)) = pure.startCount + Len(pure.history)

\* C33: a turn of play applies the returned move only if the player came
\* back with time left, when it is time-limited, and the move is one of the
\* active player's legal moves; otherwise the board stays as it is, the
\* match is over and the inactive player is the winner
C33_PlayAppliesOnlyValidMoves ==
    [][(pure.called /\ ~pure.done) =>
          IF /\ ~(/\ pure'.asked.expired
                  /\ pure.limited[board.active_player])
             /\ pure'.asked.move \in Range(active_moves(board))
          THEN /\ ~pure'.done
               /\ board'.locations[board.active_player] = pure'.asked.move
               /\ board'.move_count = board.move_count + 1
               /\ pure'.history = Append(pure.history, pure'.asked.move)
          ELSE /\ board' = board
               /\ pure'.done
               /\ pure'.history = pure.history
               /\ pure'.winner = board.inactive_player]_vars

\* a match ended by a time-limited player_1 who returned a legal move too
\* late, after moves of both players had been applied
C33_Witness ==
    /\ pure.done /\ pure.reason = "timeout"
    /\ pure.asked.expired
    /\ pure.asked.move \in Range(active_moves(board))
    /\ board.active_player = 1 /\ pure.winner = 2
    /\ Len(pure.history) >= 2

\* C34: whatever the player's get_move applies to the board it received, a
\* turn of play changes the game's own board by nothing but the one move
\* play applies after the player has returned
C34_PlayerGetsCopy ==
    [][(pure.called /\ ~pure.done) =>
          IF pure'.done THEN board' = board
          ELSE board' = apply_move(board, pure'.asked.move)]_vars

\* a turn in which the player moved on the board it received and then
\* returned a legal move, which play applied
C34_Witness ==
    /\ pure.called /\ ~pure.done
    /\ pure.asked.tampered
    /\ Len(pure.history) >= 2
    /\ board.locations[3 - board.active_player]
          = pure.history[Len(pure.history)]

(***************************************************************************)
(* One ply of search                                                       *)
(***************************************************************************)
\* the value of a successor: its utility when its active player has no legal
\* move, the agent's score of it otherwise
SuccessorValue(agent, child) ==
    IF Len(active_moves(child)) = 0 THEN utility(child, agent.me)
    ELSE score(agent, child)

\* the largest value among the successors of a non-terminal state
BestSuccessorValue(agent, game) ==
    LET vals == {SuccessorValue(agent, forecast_move(game, m)) :
                    m \in Range(active_moves(game))}
    IN CHOOSE v \in vals : \A u \in vals : u <= v

\* minimax(game, 1) with its default arguments
MinimaxDepthOne(agent, game) ==
    minimax(agent, game, 1, TRUE, NewSearch(EmptyCache, NoDeadline, 0)).value

\* C35: on a non-terminal state minimax and alphabeta at depth 1 return the
\* maximum over the legal moves of the successor's value, the successor's
\* utility if it is terminal and its score otherwise
C35_DepthOneIsBestSuccessor ==
    Len(active_moves(board)) > 0 =>
        /\ MinimaxDepthOne(self, board) = BestSuccessorValue(self, board)
        /\ AlphabetaOnCache(self, board, 1, cache)
               = BestSuccessorValue(self, board)

(***************************************************************************)
(* The best pair over the depths of one iterative-deepening call           *)
(***************************************************************************)
\* the best pair before the i-th search of the call: the seed, then the pair
\* left by the search before
BestBefore(i) == IF i = 1 THEN last.seed ELSE last.iters[i - 1].best

\* C36: during one iterative-deepening get_move call the value of the best
\* pair never decreases from one completed depth to the next, and the pair
\* is replaced only by the result of a completed depth whose value is
\* strictly greater; on a tie the earlier pair stays
C36_BestOnlyImproves ==
    (last.called /\ self.iterative) =>
        \A i \in 1..Len(last.iters) :
            ~last.iters[i].aborted =>
                /\ last.iters[i].best.value >= BestBefore(i).value
                /\ last.iters[i].best # BestBefore(i) =>
                      /\ last.iters[i].value > BestBefore(i).value
                      /\ last.iters[i].best
                             = [value |-> last.iters[i].value,
                                move |-> last.iters[i].move]

\* a call in which one completed depth returns the value of the best pair
\* with another move and one returns a smaller value, the pair staying both
\* times
C36_Witness ==
    /\ last.called /\ self.iterative
    /\ \E i \in 1..Len(last.iters) :
          /\ ~last.iters[i].aborted
          /\ last.iters[i].value = BestBefore(i).value
          /\ last.iters[i].move # BestBefore(i).move
          /\ last.iters[i].best = BestBefore(i)
    /\ \E i \in 1..Len(last.iters) :
          /\ ~last.iters[i].aborted
          /\ last.iters[i].value < BestBefore(i).value
          /\ last.iters[i].best = BestBefore(i)

(***************************************************************************)
(* The players' cells and the legal moves                                  *)
(***************************************************************************)
\* both players have been placed
BothPlaced(b) == b.locations[1] # NOT_MOVED /\ b.locations[2] # NOT_MOVED

\* the cells a knight's move away from the player that are on the board
OnBoardTargets(b, player) ==
    {c \in Cells(b) :
        \E i \in 1..Len(L_MOVES) :
            c = <<b.locations[player][1] + L_MOVES[i][1],
                  b.locations[player][2] + L_MOVES[i][2]>>}

\* C37: once both players are placed they are on different cells, and the
\* legal moves of either player contain no occupied cell, in particular not
\* the opponent's cell
C37_LegalMovesAvoidTakenCells ==
    BothPlaced(board) =>
        /\ board.locations[1] # board.locations[2]
        /\ \A p \in {1, 2} :
              /\ Range(get_legal_moves(board, p)) \cap Occupied(board) = {}
              /\ board.locations[get_opponent(board, p)]
                     \notin Range(get_legal_moves(board, p))

\* both players placed, each with a legal move left, the opponent's cell and
\* another taken cell a knight's move away from player 1
C37_Witness ==
    /\ BothPlaced(board)
    /\ get_legal_moves(board, 1) # <<>> /\ get_legal_moves(board, 2) # <<>>
    /\ board.locations[2] \in OnBoardTargets(board, 1)
    /\ Cardinality(OnBoardTargets(board, 1) \cap Occupied(board)) >= 2

(***************************************************************************)
(* The reach heuristics (heuristics.py and game_agent.py)                  *)
(* A float is modelled by the rational it stands for, as a record          *)
(* [n |-> numerator, d |-> denominator] in lowest terms with d > 0; a      *)
(* common ratio is a pair <<numerator, denominator>>.                      *)
(***************************************************************************)
Abs(x) == IF x < 0 THEN 0 - x ELSE x

RECURSIVE GCD(_, _)
GCD(a, b) == IF b = 0 THEN a ELSE GCD(b, a % b)

\* the rational n / d in lowest terms
Rat(n, d) ==
    LET g == GCD(Abs(n), Abs(d))
        s == IF d < 0 THEN 0 - 1 ELSE 1
    IN [n |-> s * (n \div g), d |-> s * (d \div g)]

RatAdd(x, y) ==
    LET l == (x.d \div GCD(x.d, y.d)) * y.d
    IN Rat(x.n * (l \div x.d) + y.n * (l \div y.d), l)

\* x - y
RatSub(x, y) == RatAdd(x, [n |-> 0 - y.n, d |-> y.d])

\* -x
RatNeg(x) == [n |-> 0 - x.n, d |-> x.d]

RECURSIVE IntPow(_, _)
IntPow(a, k) == IF k = 0 THEN 1 ELSE a * IntPow(a, k - 1)

\* pow(common_ratio, 1 - depth) for depth >= 1
RatioPow(ratio, depth) ==
    Rat(IntPow(ratio[2], depth - 1), IntPow(ratio[1], depth - 1))

\* sum([len(cells) * pow(common_ratio, 1 - depth) for depth, cells in ...]),
\* from the bucket of depth d on
RECURSIVE SumBuckets(_, _, _)
SumBuckets(buckets, d, ratio) ==
    IF d > Len(buckets) THEN Rat(0, 1)
    ELSE RatAdd(Rat(Len(buckets[d]) * RatioPow(ratio, d).n,
                    RatioPow(ratio, d).d),
                SumBuckets(buckets, d + 1, ratio))

\* heuristics.reach_score(board, player, common_ratio)
reach_score(b, player, ratio) ==
    SumBuckets(get_reachable_locations(b, player), 1, ratio)

\* heuristics.differential_reach_score(board, player, common_ratio)
differential_reach_score(b, player, ratio) ==
    RatSub(reach_score(b, player, ratio),
           reach_score(b, get_opponent(b, player), ratio))

\* game_agent.get_reachable_cells raises AttributeError: past the early
\* return it calls game.get_blank_spaces(), which Board does not define
get_reachable_cells_raises(b, player) ==
    Len(get_legal_moves(b, player)) # 0

\* game_agent.reach_score(game, player, common_ratio): the sum over the
\* empty dict when get_reachable_cells returns
agent_reach_score(b, player, ratio) ==
    [raised |-> get_reachable_cells_raises(b, player), value |-> Rat(0, 1)]

\* game_agent.differential_reach_score(game, player, common_ratio)
agent_differential_reach_score(b, player, ratio) ==
    LET own == agent_reach_score(b, player, ratio)
        opp == agent_reach_score(b, get_opponent(b, player), ratio)
    IN [raised |-> own.raised \/ opp.raised,
        value |-> RatSub(own.value, opp.value)]

\* common ratios tried, as <<numerator, denominator>>: the defaults 1.4 of
\* heuristics.py and 1.1 of game_agent.py, a ratio below 1 and a negative one
Ratios == {<<7, 5>>, <<11, 10>>, <<1, 2>>, <<0 - 2, 1>>}

\* the identity for heuristics.differential_reach_score
ZeroSumHeuristics ==
    BothPlaced(board) =>
        \A p \in {1, 2}, ratio \in Ratios :
            differential_reach_score(board, p, ratio)
                = RatNeg(differential_reach_score(board,
                                                  get_opponent(board, p), ratio))

\* C38: once both players are placed, for every common ratio
\* differential_reach_score(state, p) is the negation of
\* differential_reach_score(state, opponent(p)), for the function of
\* heuristics.py and for the one of game_agent.py
C38_ZeroSum ==
    BothPlaced(board) =>
        /\ ZeroSumHeuristics
        /\ \A p \in {1, 2}, ratio \in Ratios :
              /\ ~agent_differential_reach_score(board, p, ratio).raised
              /\ agent_differential_reach_score(board, p, ratio).value
                   = RatNeg(agent_differential_reach_score(
                                board, get_opponent(board, p), ratio).value)

(***************************************************************************)
(* The maximizing flag along the search                                    *)
(***************************************************************************)
\* C39: in every minimax or alphabeta call made during a get_move call on a
\* state whose active player is the agent, maximizing_player is true exactly
\* when the agent is the active player of the state searched
C39_MaximizingIffAgentToMove ==
    last.called => \A f \in last.flags : f[1] = f[2]

\* a get_move call whose search went three plies down: calls on the agent's
\* turn at two depths and a call on the opponent's turn in between
C39_Witness ==
    /\ last.called
    /\ \E f \in last.flags, g \in last.flags, h \in last.flags :
          /\ f[1] /\ f[2]
          /\ ~g[1] /\ ~g[2] /\ g[3] = f[3] - 1
          /\ h[1] /\ h[2] /\ h[3] = f[3] - 2

====
